---- MODULE Spec2Model ----
(***************************************************************************)
(* Model of the incremental build of the Fotcer database:                  *)
(* build_database (src/src/database_builder.py) over the DatabaseManager   *)
(* gateway (src/src/database_manager.py) and the fetchers                  *)
(* (src/src/fetchers.py).                                                  *)
(*                                                                         *)
(* A DataFrame whose row order does not matter is a bag of rows, one whose *)
(* order matters (Competition, History) is a sequence.  A pandas Series is *)
(* a function from its index labels to its values.                         *)
(***************************************************************************)
EXTENDS Integers, Sequences, FiniteSets, Bags, TLC

\* ---------------------------------------------------------------- bounds
\* Number of times the source site changes its pages.
MaxEpoch == 1
\* Seasons listed by the league's history page in the main specification.
MaxSeasons == 2
\* Seasons listed by the league's history page in the long specification.
LongSeasons == 6

\* ------------------------------------------------------------- constants
\* update_season_indicies[:5]
UpdateCap == 5

NoDataAvailable == <<"No data available", 0, 0>>
NotYetPlayed == <<"Not yet played", 0, 0>>
Sentinels == {NoDataAvailable, NotYetPlayed}

Phases == {"country", "club", "competition", "history", "fixture"}

League == "A"
Cup == "B"
\* The enabled men's competitions of the competition CSV, in file order.
CompetitionCsv == <<League, Cup>>
Comps == {League, Cup}
CupSeasons == 3

\* The countries CSV read by the club phase.
CountryCsv ==
  { [Country |-> "X", NClubs |-> 3, EnableClub |-> TRUE,  EnableNation |-> TRUE],
    [Country |-> "Y", NClubs |-> 0, EnableClub |-> TRUE,  EnableNation |-> TRUE],
    [Country |-> "Z", NClubs |-> 1, EnableClub |-> TRUE,  EnableNation |-> FALSE],
    [Country |-> "W", NClubs |-> 1, EnableClub |-> FALSE, EnableNation |-> TRUE] }
\* Ascending order of the country names above.
CountryOrder == <<"W", "X", "Y", "Z">>

Min(a, b) == IF a < b THEN a ELSE b

\* ------------------------------------------------------------- the store
TFixture(c) == <<"Fixture", c>>
THistory(c) == <<"History", c>>
TClub == <<"Club", "">>
TCountry == <<"Country", "">>
TCompetition == <<"Competition", "">>
BagTables == {TClub, TCountry} \cup {TFixture(c) : c \in Comps}

NoHistory == [squads |-> FALSE, rows |-> <<>>]

\* initialize_database on a fresh path: no table exists.
EmptyDb ==
  [ tables      |-> {},
    bag         |-> [t \in BagTables |-> EmptyBag],
    Competition |-> <<>>,
    History     |-> [c \in Comps |-> NoHistory] ]

\* DataFrame.drop_duplicates(subset=None): one copy of every distinct row.
drop_duplicates(b) == SetToBag(BagToSet(b))

is_table_existing(d, t) == t \in d.tables

\* read_table: the stored frame, or an empty frame when the table is absent.
read_table(d, t) == IF is_table_existing(d, t) THEN d.bag[t] ELSE EmptyBag

\* write_dataframe: to_sql(if_exists) followed by commit.
write_dataframe(d, df, t, if_exists) ==
  [d EXCEPT !.tables = @ \cup {t},
            !.bag[t] = IF if_exists = "append" /\ is_table_existing(d, t)
                         THEN @ (+) df
                         ELSE df]

\* execute_query: the statement runs only when every placeholder it names is
\* bound; otherwise the driver raises, the exception is caught and returned,
\* and the store is left as it was.
execute_query(d, stmt) ==
  IF stmt.placeholders \subseteq stmt.bound
    THEN [d EXCEPT !.bag[stmt.table] =
            [r \in {x \in BagToSet(@) : x.Season # stmt.season} |-> @[r]]]
    ELSE d

\* delete_records: builds DELETE ... WHERE "Season" = :param_0 together with
\* its params dict, then calls execute_query(query) without the params.
delete_records(d, t, season) ==
  execute_query(d, [table |-> t, season |-> season,
                    placeholders |-> {"param_0"}, bound |-> {}])

\* add_records (table not empty): concat with the stored rows, drop the
\* duplicates, replace the table; a plain create when the table is absent.
add_records(d, t, table) ==
  IF is_table_existing(d, t)
    THEN [d EXCEPT !.bag[t] = drop_duplicates(read_table(d, t) (+) table)]
    ELSE write_dataframe(d, table, t, "replace")

\* The Season values stored in a fixture table, and the rows of one season.
SeasonsIn(d, c) == {r.Season : r \in BagToSet(d.bag[TFixture(c)])}
RowsOf(d, c, s) == {r \in BagToSet(d.bag[TFixture(c)]) : r.Season = s}

\* ------------------------------------------------------------ the source
VARIABLES
  epoch,      \* how many times the source site has changed its pages
  fault,      \* the page that is down or blank, <<"none", "", 0>> when none is
  noReport,   \* the cup season whose final has no match report, 0 when none
  nLeague,    \* the number of seasons the league's history page lists
  profile     \* the update configurations this deployment uses

NoFault == <<"none", "", 0>>
Down(page) == <<"down", page[1], page[2]>>
Blank(page) == <<"blank", page[1], page[2]>>

\* Descending seasons n, n-1, ..., 1: the source lists the newest first.
Descending(n) == [i \in 1..n |-> n - i + 1]

\* add_match_code on a history table: the extracted codes go to the rows
\* whose 'Final' cell reads 'Match Report'; rows above the first such row
\* get "Not yet played", rows below it "No data available".
add_match_code(reports, codes) ==
  LET n == Len(reports)
      marked == {i \in 1..n : reports[i]}
      first == CHOOSE i \in marked : \A j \in marked : i <= j
  IN IF marked = {}
       THEN [i \in 1..n |-> NotYetPlayed]
       ELSE [i \in 1..n |->
               IF reports[i] THEN codes[Cardinality({j \in marked : j <= i})]
               ELSE IF i < first THEN NotYetPlayed
               ELSE NoDataAvailable]

\* fetch_history: the league's table has a '# Squads' column and no match
\* codes; the cup's has a 'Final' column, so match codes are attached.
fetch_history(c) ==
  IF c = League
    THEN [squads |-> TRUE,
          rows |-> [i \in 1..nLeague |-> [Season |-> Descending(nLeague)[i]]]]
    ELSE LET seasons == Descending(CupSeasons)
             reports == [i \in 1..CupSeasons |-> seasons[i] # noReport]
             finals == SelectSeq(seasons, LAMBDA s : s # noReport)
             codes == [i \in 1..Len(finals) |-> <<Cup, finals[i], 1>>]
             mc == add_match_code(reports, codes)
         IN [squads |-> FALSE,
             rows |-> [i \in 1..CupSeasons |->
                         [Season |-> seasons[i], Code |-> mc[i]]]]

\* The schedule page of a league season as the normalizer shapes it: the
\* first match is played and its record is revised at every change of the
\* source, the second is played from the first change on.
SchedulePage(s) ==
  SetToBag({ [Code |-> <<League, s, 1>>, Ver |-> epoch],
             [Code |-> IF epoch = 0 THEN NoDataAvailable ELSE <<League, s, 2>>,
              Ver |-> 0] })

\* An outage of the source: the schedule pages of the league seasons between
\* its first and its newest are down.
Outage == <<"outage", League, 0>>
OutagePages == {<<League, s>> : s \in 2..(LongSeasons - 1)}

\* _fetch raises for a page that is down or that does not exist.
FetchRaises(page) == fault = Down(page) \/ (fault = Outage /\ page \in OutagePages)

\* fetch_fixture: the name of the exception that escapes it, "none" when it
\* returns None, "df" with the frame otherwise.  By match code nothing is
\* caught: a sentinel is no valid URL, a page that is down a transport error.
fetch_fixture(comp_name, season, match_code) ==
  IF match_code # <<>>
    THEN IF match_code \in Sentinels
           THEN [status |-> "InvalidURL", df |-> EmptyBag]
           ELSE IF FetchRaises(<<match_code[1], match_code[2]>>)
           THEN [status |-> "URLError", df |-> EmptyBag]
           ELSE [status |-> "df",
                 df |-> SetToBag({[Code |-> match_code, Ver |-> 0]})]
    ELSE IF FetchRaises(<<comp_name, season>>)
           THEN [status |-> "none", df |-> EmptyBag]
           ELSE [status |-> "df",
                 df |-> IF fault = Blank(<<comp_name, season>>)
                          THEN EmptyBag ELSE SchedulePage(season)]

\* fetch_club: the roster page of a country; a third (men's) club of country
\* X appears at the first change of the source.
fetch_club(country) ==
  SetToBag({ [Country |-> country, ClubCode |-> 1, Gender |-> "M"],
             [Country |-> country, ClubCode |-> 2, Gender |-> "F"] }
           \cup IF epoch >= 1 /\ country = "X"
                  THEN {[Country |-> country, ClubCode |-> 3, Gender |-> "M"]}
                  ELSE {})

\* all_clubs[all_clubs['Gender'] == 'M']
MenOnly(df) == [r \in {x \in BagToSet(df) : x.Gender = "M"} |-> df[r]]

\* -------------------------------------------------------- build_database
VARIABLES
  db,         \* the SQLite database
  pc,         \* where build_database stands
  update,     \* config['update']: the phases this run performs
  queue,      \* the rows the current loop has still to visit
  todo,       \* what is left of update_season_indicies[:5]
  fixture,    \* the fetched frame between delete_records and add_records
  err,        \* the exception that left build_database, "none" when none did
  \* history variables of the current run
  pre,        \* the database when the run started
  nwrites,    \* committed writes so far
  planned,    \* competitions whose update plan was computed
  selected,   \* <<competition, season>> in update_season_indicies[:5]
  fetched,    \* <<competition, season>> fetch_fixture was called for
  failed,     \* <<competition, season>> whose fetch failed
  written,    \* <<competition, season>> whose frame this run has written
  clubFetched,\* countries fetch_club was called for
  got,        \* <<competition, season>> -> the frame last written for it
  lastEnd,    \* how the previous run ended: "finished", "killed" (interrupted
              \* after a write), "none" otherwise or once the source changed
  lastCfg,    \* config['update'] of the previous run
  again,      \* this run repeats a finished run, nothing changed in between
  resumed     \* this run restarts a terminated run, nothing changed in between

\* Calls of the gateway, the resolvers, the query surface and the table
\* utilities, one at a time.
VARIABLES
  op,         \* the function called last, "none" before any call
  arg,        \* its arguments
  ret         \* what it returned, or the state it left

callvars == <<op, arg, ret>>
srcvars == <<epoch, fault, noReport, nLeague, profile>>
runvars == <<pc, update, queue, todo, fixture, err>>
histvars == <<pre, nwrites, planned, selected, fetched, failed, written,
              clubFetched, got,
              lastEnd, lastCfg, again, resumed>>
vars == <<srcvars, db, runvars, histvars, callvars>>

\* The deployments: each is the set of update configurations its runs are
\* started with.
Profiles ==
  { {{"club"}, {"country", "club"}},
    {{"fixture"}, {"competition", "fixture"}, {"competition", "history"}},
    {Phases} }
Configs == UNION Profiles

ClubPage(country) == <<country, 0>>
\* The faults of the source: a league schedule page that is down, one that
\* is blank, the match page of the newest cup final that is down, a roster
\* page that is down.
Faults == {NoFault, Down(<<League, 2>>), Blank(<<League, 1>>),
           Down(<<Cup, CupSeasons>>), Down(ClubPage("X"))}

NoFrames == [p \in {} |-> EmptyBag]

\* A pandas Series as a function from 0-based index labels to values.
\* comp_history.loc[comp_history['Match Code'] != 'No data available', col]
\* keeps the labels of the rows it keeps; a list has the labels 0..n-1.
Column(h, col) == [i \in 0..(Len(h.rows) - 1) |-> h.rows[i + 1][col]]
Loc(h, col) ==
  [i \in {j \in 0..(Len(h.rows) - 1) : h.rows[j + 1].Code # NoDataAvailable}
     |-> h.rows[i + 1][col]]
avail_seasons(h) == IF h.squads THEN Column(h, "Season") ELSE Loc(h, "Season")
match_codes(h) == IF h.squads THEN <<>> ELSE Loc(h, "Code")
SeriesLen(s) == Cardinality(DOMAIN s)

\* avail_seasons[i] for i in range(len(avail_seasons)) raises KeyError when
\* i is not a label of the Series.
KeyError(av) == \E i \in 0..(SeriesLen(av) - 1) : i \notin DOMAIN av

RECURSIVE Ascending(_)
Ascending(S) ==
  IF S = {} THEN <<>>
  ELSE LET m == CHOOSE x \in S : \A y \in S : x <= y
       IN <<m>> \o Ascending(S \ {m})

\* exists_seasons: the Season column of the stored fixture table.
exists_seasons(d, c) ==
  IF is_table_existing(d, TFixture(c)) THEN SeasonsIn(d, c) ELSE {}

\* The plan without "or i == 0".
UpdateOnlyNewMutant(av, exists) ==
  Ascending({i \in 0..(SeriesLen(av) - 1) : av[i] \notin exists})

\* The plan without "not in exists_seasons".
UpdateEverySeasonMutant(av, exists) ==
  Ascending({i \in 0..(SeriesLen(av) - 1) : TRUE})

\* update_season_indicies: the new seasons, and always index 0.
update_season_indicies(av, exists) ==
  Ascending({i \in 0..(SeriesLen(av) - 1) : av[i] \notin exists \/ i = 0})

\* update_season_indicies[:5]
Capped(indicies) == SubSeq(indicies, 1, Min(UpdateCap, Len(indicies)))

\* fixture['Season'] = avail_seasons[index]
WithSeason(df, s) ==
  [r \in {[Season |-> s, Code |-> x.Code, Ver |-> x.Ver] : x \in BagToSet(df)}
     |-> df[[Code |-> r.Code, Ver |-> r.Ver]]]

\* The club phase without the filter on the countries already in Club.
EnableIgnoresExistingMutant(d) == {r \in CountryCsv : r.EnableClub}

\* The club phase with the mask of the filter not negated.
EnableKeepsExistingMutant(d) ==
  LET enabled == {r \in CountryCsv : r.EnableClub}
      existing_countries == {r.Country : r \in BagToSet(read_table(d, TClub))}
  IN IF is_table_existing(d, TClub)
       THEN {r \in enabled : r.Country \in existing_countries}
       ELSE enabled

\* enable_countries of the club phase: enabled in the CSV, not yet in Club.
enable_countries(d) ==
  LET enabled == {r \in CountryCsv : r.EnableClub}
      existing_countries == {r.Country : r \in BagToSet(read_table(d, TClub))}
  IN IF is_table_existing(d, TClub)
       THEN {r \in enabled : r.Country \notin existing_countries}
       ELSE enabled

\* sort_values(by=['Governing Body', 'Country']); one governing body here.
sort_values(rows) ==
  SelectSeq(CountryOrder, LAMBDA n : \E r \in rows : r.Country = n)
CsvRow(country) == CHOOSE r \in CountryCsv : r.Country = country

\* The Country table written by the country phase.
CountryFrame ==
  SetToBag({[Country |-> r.Country, NClubs |-> r.NClubs] :
              r \in {x \in CountryCsv : x.EnableNation}})

TypeOK ==
  /\ epoch \in 0..MaxEpoch
  /\ pc \in {"idle", "country", "club", "club_loop", "competition", "history",
             "history_loop", "fixture", "fixture_comp", "fixture_season",
             "fixture_delete", "fixture_add", "done", "raised"}
  /\ update \in Configs \cup {{}}
  /\ db.tables \subseteq BagTables \cup {TCompetition}
                             \cup {THistory(c) : c \in Comps}

\* No call of the second group of functions is in progress.
NoCall ==
  /\ op = "none"
  /\ arg = <<>>
  /\ ret = <<>>

Init ==
  /\ NoCall
  /\ epoch = 0
  /\ fault = NoFault
  /\ noReport \in 1..CupSeasons
  /\ nLeague = MaxSeasons
  /\ profile \in Profiles
  /\ db = EmptyDb
  /\ pc = "idle"
  /\ update = {}
  /\ queue = <<>>
  /\ todo = <<>>
  /\ fixture = EmptyBag
  /\ err = "none"
  /\ pre = EmptyDb
  /\ nwrites = 0
  /\ planned = {}
  /\ selected = {}
  /\ fetched = {}
  /\ failed = {}
  /\ written = {}
  /\ clubFetched = {}
  /\ got = NoFrames
  /\ lastEnd = "none"
  /\ lastCfg = {}
  /\ again = FALSE
  /\ resumed = FALSE

\* The long specification starts from a league with more than five seasons.
BuildLong ==
  /\ epoch = 0
  /\ fault = NoFault
  /\ noReport = 1
  /\ nLeague = LongSeasons
  /\ profile = {{"club"}, {"fixture"}, {"competition", "history"}}
  /\ db = EmptyDb
  /\ pc = "idle"
  /\ update = {}
  /\ queue = <<>>
  /\ todo = <<>>
  /\ fixture = EmptyBag
  /\ err = "none"
  /\ pre = EmptyDb
  /\ nwrites = 0
  /\ planned = {}
  /\ selected = {}
  /\ fetched = {}
  /\ failed = {}
  /\ written = {}
  /\ clubFetched = {}
  /\ got = NoFrames
  /\ lastEnd = "none"
  /\ lastCfg = {}
  /\ again = FALSE
  /\ resumed = FALSE

InitLong == NoCall /\ BuildLong

\* ---------------------------------------------------------------- actions
Raise(e) ==
  /\ pc' = "raised"
  /\ err' = e

\* A run starts: load_config, DatabaseManager(), initialize_database.
StartRun(config) ==
  /\ pc = "idle"
  /\ config \in profile
  /\ pc' = "country"
  /\ update' = config
  /\ pre' = db
  /\ again' = (lastEnd = "finished" /\ lastCfg = config)
  /\ resumed' = (lastEnd = "killed" /\ lastCfg = config)
  /\ UNCHANGED <<callvars, srcvars, db, queue, todo, fixture, err, nwrites, planned,
                 selected, fetched, failed, written, clubFetched, got, lastEnd, lastCfg>>

\* if update_config['country']: the Country table is replaced.
CountryPhase ==
  /\ pc = "country"
  /\ pc' = "club"
  /\ IF "country" \in update
       THEN /\ db' = write_dataframe(db, CountryFrame, TCountry, "replace")
            /\ nwrites' = nwrites + 1
       ELSE UNCHANGED <<db, nwrites>>
  /\ UNCHANGED <<callvars, srcvars, update, queue, todo, fixture, err, pre, planned,
                 selected, fetched, failed, written, clubFetched, got, lastEnd, lastCfg,
                 again, resumed>>

\* if update_config['club']: the countries to fetch clubs for.
ClubPhase ==
  /\ pc = "club"
  /\ IF "club" \in update
       THEN /\ queue' = sort_values(enable_countries(db))
            /\ pc' = "club_loop"
       ELSE /\ pc' = "competition"
            /\ UNCHANGED queue
  /\ UNCHANGED <<callvars, srcvars, db, update, todo, fixture, err, histvars>>

\* One country of _get_and_process_clubs and the write of its clubs.
ClubCountry ==
  /\ pc = "club_loop"
  /\ queue # <<>>
  /\ LET country_name == Head(queue)
         clubs_df == IF CsvRow(country_name).NClubs = 0
                       THEN EmptyBag
                       ELSE MenOnly(fetch_club(country_name))
     IN /\ clubFetched' = IF CsvRow(country_name).NClubs = 0
                             THEN clubFetched
                             ELSE clubFetched \cup {country_name}
        /\ IF CsvRow(country_name).NClubs # 0 /\ FetchRaises(ClubPage(country_name))
          THEN /\ Raise("URLError")
               /\ UNCHANGED <<db, queue, nwrites>>
          ELSE /\ queue' = Tail(queue)
               /\ UNCHANGED <<pc, err>>
               /\ IF clubs_df # EmptyBag
                    THEN /\ db' = write_dataframe(db, clubs_df, TClub, "append")
                         /\ nwrites' = nwrites + 1
                    ELSE UNCHANGED <<db, nwrites>>
  /\ UNCHANGED <<callvars, srcvars, update, todo, fixture, pre, planned, selected,
                 fetched, failed, written, got, lastEnd, lastCfg, again,
                 resumed>>

ClubDone ==
  /\ pc = "club_loop"
  /\ queue = <<>>
  /\ pc' = "competition"
  /\ UNCHANGED <<callvars, srcvars, db, update, queue, todo, fixture, err, histvars>>

\* if update_config['competition']: the Competition table is replaced.
CompetitionPhase ==
  /\ pc = "competition"
  /\ pc' = "history"
  /\ IF "competition" \in update
       THEN /\ db' = [db EXCEPT !.tables = @ \cup {TCompetition},
                                !.Competition = CompetitionCsv]
            /\ nwrites' = nwrites + 1
       ELSE UNCHANGED <<db, nwrites>>
  /\ UNCHANGED <<callvars, srcvars, update, queue, todo, fixture, err, pre, planned,
                 selected, fetched, failed, written, clubFetched, got, lastEnd, lastCfg,
                 again, resumed>>

\* if update_config['history']: needs the Competition table.
HistoryPhase ==
  /\ pc = "history"
  /\ IF "history" \notin update
       THEN /\ pc' = "fixture"
            /\ UNCHANGED <<queue, err>>
       ELSE IF ~is_table_existing(db, TCompetition)
         THEN /\ Raise("ValueError: Competition")
              /\ UNCHANGED queue
         ELSE /\ queue' = db.Competition
              /\ pc' = "history_loop"
              /\ UNCHANGED err
  /\ UNCHANGED <<callvars, srcvars, db, update, todo, fixture, histvars>>

\* One competition of the history loop: fetch_history, replace its table.
HistoryComp ==
  /\ pc = "history_loop"
  /\ queue # <<>>
  /\ db' = [db EXCEPT !.tables = @ \cup {THistory(Head(queue))},
                      !.History[Head(queue)] = fetch_history(Head(queue))]
  /\ nwrites' = nwrites + 1
  /\ queue' = Tail(queue)
  /\ UNCHANGED <<callvars, srcvars, pc, update, todo, fixture, err, pre, planned,
                 selected, fetched, failed, written, clubFetched, got, lastEnd, lastCfg,
                 again, resumed>>

HistoryDone ==
  /\ pc = "history_loop"
  /\ queue = <<>>
  /\ pc' = "fixture"
  /\ UNCHANGED <<callvars, srcvars, db, update, queue, todo, fixture, err, histvars>>

\* if update_config['fixture']: needs the Competition table.
FixturePhase ==
  /\ pc = "fixture"
  /\ IF "fixture" \notin update
       THEN /\ pc' = "done"
            /\ UNCHANGED <<queue, err>>
       ELSE IF ~is_table_existing(db, TCompetition)
         THEN /\ Raise("ValueError: Competition")
              /\ UNCHANGED queue
         ELSE /\ queue' = db.Competition
              /\ pc' = "fixture_comp"
              /\ UNCHANGED err
  /\ UNCHANGED <<callvars, srcvars, db, update, todo, fixture, histvars>>

\* The head of one competition's iteration: the History table is required,
\* then the update plan is computed.
FixtureComp ==
  /\ pc = "fixture_comp"
  /\ queue # <<>>
  /\ LET comp_name == Head(queue)
         comp_history == db.History[comp_name]
         av == avail_seasons(comp_history)
         plan == Capped(update_season_indicies(av, exists_seasons(db, comp_name)))
     IN IF ~is_table_existing(db, THistory(comp_name))
          THEN /\ Raise("ValueError: History")
               /\ UNCHANGED <<todo, planned, selected>>
          ELSE IF KeyError(av)
            THEN /\ Raise("KeyError")
                 /\ UNCHANGED <<todo, planned, selected>>
            ELSE /\ todo' = plan
                 /\ pc' = "fixture_season"
                 /\ planned' = planned \cup {comp_name}
                 /\ selected' = selected \cup
                      {<<comp_name, av[plan[k]]>> : k \in DOMAIN plan}
                 /\ UNCHANGED err
  /\ UNCHANGED <<callvars, srcvars, db, update, queue, fixture, pre, nwrites, fetched,
                 failed, written, clubFetched, got, lastEnd, lastCfg, again, resumed>>

\* One iteration of the season loop up to its first write: the fetch, then
\* the create of an absent table or the way to delete_records.
FixtureSeason ==
  /\ pc = "fixture_season"
  /\ todo # <<>>
  /\ LET comp_name == Head(queue)
         comp_history == db.History[comp_name]
         index == Head(todo)
         season == avail_seasons(comp_history)[index]
         match_code == IF comp_history.squads THEN <<>>
                       ELSE match_codes(comp_history)[index]
         res == fetch_fixture(comp_name, season, match_code)
         frame == WithSeason(res.df, season)
         table_name == TFixture(comp_name)
     IN /\ fetched' = fetched \cup {<<comp_name, season>>}
        /\ CASE res.status \in {"InvalidURL", "URLError"} ->
                  /\ Raise(res.status)
                  /\ failed' = failed \cup {<<comp_name, season>>}
                  /\ UNCHANGED <<db, todo, fixture, nwrites, written, got>>
             [] res.status = "none" ->
                  /\ todo' = Tail(todo)
                  /\ failed' = failed \cup {<<comp_name, season>>}
                  /\ UNCHANGED <<db, pc, err, fixture, nwrites, written, got>>
             [] res.status = "df" /\ ~is_table_existing(db, table_name) ->
                  /\ db' = write_dataframe(db, frame, table_name, "replace")
                  /\ nwrites' = nwrites + 1
                  /\ written' = written \cup {<<comp_name, season>>}
                  /\ got' = [p \in DOMAIN got \cup {<<comp_name, season>>} |->
                               IF p = <<comp_name, season>> THEN frame ELSE got[p]]
                  /\ todo' = Tail(todo)
                  /\ UNCHANGED <<pc, err, fixture, failed>>
             [] res.status = "df" /\ is_table_existing(db, table_name) ->
                  /\ fixture' = frame
                  /\ pc' = "fixture_delete"
                  /\ UNCHANGED <<db, todo, err, nwrites, failed, written, got>>
  /\ UNCHANGED <<callvars, srcvars, update, queue, pre, planned, selected, clubFetched,
                 lastEnd, lastCfg, again, resumed>>

\* db_manager.delete_records(table_name, conditions={'Season': season})
FixtureDelete ==
  /\ pc = "fixture_delete"
  /\ LET comp_name == Head(queue)
         season == avail_seasons(db.History[comp_name])[Head(todo)]
     IN db' = delete_records(db, TFixture(comp_name), season)
  /\ pc' = "fixture_add"
  /\ UNCHANGED <<callvars, srcvars, update, queue, todo, fixture, err, histvars>>

\* db_manager.add_records(table_name, fixture): an empty frame is refused.
FixtureAdd ==
  /\ pc = "fixture_add"
  /\ LET comp_name == Head(queue)
         season == avail_seasons(db.History[comp_name])[Head(todo)]
     IN IF fixture = EmptyBag
          THEN /\ Raise("ValueError: empty")
               /\ UNCHANGED <<db, todo, nwrites, written, got>>
          ELSE /\ db' = add_records(db, TFixture(comp_name), fixture)
               /\ nwrites' = nwrites + 1
               /\ written' = written \cup {<<comp_name, season>>}
               /\ got' = [p \in DOMAIN got \cup {<<comp_name, season>>} |->
                            IF p = <<comp_name, season>> THEN fixture ELSE got[p]]
               /\ todo' = Tail(todo)
               /\ pc' = "fixture_season"
               /\ UNCHANGED err
  /\ fixture' = EmptyBag
  /\ UNCHANGED <<callvars, srcvars, update, queue, pre, planned, selected, fetched,
                 failed, clubFetched, lastEnd, lastCfg, again, resumed>>

\* The season loop of one competition is over: on to the next competition.
FixtureNext ==
  /\ pc = "fixture_season"
  /\ todo = <<>>
  /\ queue' = Tail(queue)
  /\ pc' = "fixture_comp"
  /\ UNCHANGED <<callvars, srcvars, db, update, todo, fixture, err, histvars>>

FixtureDone ==
  /\ pc = "fixture_comp"
  /\ queue = <<>>
  /\ pc' = "done"
  /\ UNCHANGED <<callvars, srcvars, db, update, queue, todo, fixture, err, histvars>>

\* The process is gone: the next run starts with fresh local state.
Reset(end) ==
  /\ lastEnd' = end
  /\ lastCfg' = IF end = "none" THEN {} ELSE update
  /\ pc' = "idle"
  /\ update' = {}
  /\ queue' = <<>>
  /\ todo' = <<>>
  /\ fixture' = EmptyBag
  /\ err' = "none"
  /\ pre' = EmptyDb
  /\ nwrites' = 0
  /\ planned' = {}
  /\ selected' = {}
  /\ fetched' = {}
  /\ failed' = {}
  /\ written' = {}
  /\ clubFetched' = {}
  /\ again' = FALSE
  /\ resumed' = FALSE
  /\ UNCHANGED <<callvars, srcvars, db, got>>

\* build_database has returned or raised: the process ends.
Exit ==
  /\ pc \in {"done", "raised"}
  /\ Reset("finished")

\* The process is terminated between two statements of build_database.  The
\* run counts as interrupted when it had committed a write, or stood between
\* delete_records and add_records.
Kill ==
  /\ pc \notin {"idle", "done", "raised"}
  /\ Reset(IF nwrites > 0 \/ pc = "fixture_add" THEN "killed" ELSE "none")

\* Between two runs the source site changes its pages.
SourceChange ==
  /\ pc = "idle"
  /\ epoch < MaxEpoch
  /\ epoch' = epoch + 1
  /\ lastEnd' = "none"
  /\ lastCfg' = {}
  /\ UNCHANGED <<callvars, fault, noReport, nLeague, profile, db, runvars, pre, nwrites, planned,
                 selected, fetched, failed, written, clubFetched, got, again, resumed>>

\* Between two runs a page goes down or blank, or comes back.
SourceFault(f) ==
  /\ pc = "idle"
  /\ f # fault
  /\ fault' = f
  /\ lastEnd' = "none"
  /\ lastCfg' = {}
  /\ UNCHANGED <<callvars, epoch, noReport, nLeague, profile, db, runvars, pre, nwrites, planned,
                 selected, fetched, failed, written, clubFetched, got, again, resumed>>

Next ==
  \/ \E config \in Configs : StartRun(config)
  \/ CountryPhase
  \/ ClubPhase
  \/ ClubCountry
  \/ ClubDone
  \/ CompetitionPhase
  \/ HistoryPhase
  \/ HistoryComp
  \/ HistoryDone
  \/ FixturePhase
  \/ FixtureComp
  \/ FixtureSeason
  \/ FixtureDelete
  \/ FixtureAdd
  \/ FixtureNext
  \/ FixtureDone
  \/ Exit
  \/ Kill
  \/ SourceChange
  \/ \E f \in Faults : SourceFault(f)

Spec == Init /\ [][Next]_vars
SpecLong == InitLong /\ [][Next]_vars

\* Repeated complete runs against a source that does not change: the
\* competition and history run, then fixture runs; no run is terminated, an
\* outage that has begun does not end.
RunStep ==
  \/ CountryPhase
  \/ ClubPhase
  \/ CompetitionPhase
  \/ HistoryPhase
  \/ HistoryComp
  \/ HistoryDone
  \/ FixturePhase
  \/ FixtureComp
  \/ FixtureSeason
  \/ FixtureDelete
  \/ FixtureAdd
  \/ FixtureNext
  \/ FixtureDone
  \/ Exit

RepeatNext ==
  \/ StartRun({"competition", "history"})
  \/ StartRun({"fixture"})
  \/ RunStep
  \/ SourceFault(Outage)

\* Seasons the source adds to the league while the model runs.
MaxNewSeasons == 1

\* Between two runs a new season of the league begins: the history page of
\* the league lists it first.
NewSeason ==
  /\ pc = "idle"
  /\ nLeague < LongSeasons + MaxNewSeasons
  /\ nLeague' = nLeague + 1
  /\ lastEnd' = "none"
  /\ lastCfg' = {}
  /\ UNCHANGED <<callvars, epoch, fault, noReport, profile, db, runvars, pre, nwrites, planned,
                 selected, fetched, failed, written, clubFetched, got, again, resumed>>

SeasonNext ==
  \/ StartRun({"competition", "history"})
  \/ StartRun({"fixture"})
  \/ RunStep
  \/ NewSeason

\* build_database runs to its end once started, and is started again and
\* again with either configuration.
SpecSeason ==
  /\ InitLong
  /\ [][SeasonNext]_vars
  /\ WF_vars(RunStep)
  /\ SF_vars(StartRun({"competition", "history"}))
  /\ SF_vars(StartRun({"fixture"}))

SpecRepeat ==
  /\ InitLong
  /\ [][RepeatNext]_vars
  /\ WF_vars(RunStep)
  /\ SF_vars(StartRun({"competition", "history"}))
  /\ SF_vars(StartRun({"fixture"}))

\* ------------------------------------------- add_records with a subset
\* Rows of a frame handed to one call.
MaxRows == 2
\* Values a column takes.
MaxKey == 2

Columns == {"k", "v"}
Rows == [k : 1..MaxKey, v : 1..MaxKey]
Frames == UNION {[1..n -> Rows] : n \in 0..MaxRows}
\* subset: None (written {}) or a list of column names.
None == {}
Subsets == {None, {"k"}, {"k", "v"}}

AbsentTable == [exists |-> FALSE, rows |-> <<>>, raised |-> FALSE]

\* DataFrame.drop_duplicates(subset) on an ordered frame, keep='first': a
\* row stays unless an earlier row equals it on the subset columns (on every
\* column when subset is None).
drop_duplicates_subset(rows, subset) ==
  LET cols == IF subset = None THEN Columns ELSE subset
      kept == {i \in 1..Len(rows) :
                 \A j \in 1..(i - 1) : \E col \in cols : rows[j][col] # rows[i][col]}
      idx == Ascending(kept)
  IN [n \in 1..Len(idx) |-> rows[idx[n]]]

\* add_records(table_name, table, subset) on the state st of one table.
add_records_subset(st, table, subset) ==
  IF table = <<>>
    THEN [st EXCEPT !.raised = TRUE]
    ELSE IF st.exists
      THEN [exists |-> TRUE,
            rows |-> drop_duplicates_subset(st.rows \o table, subset),
            raised |-> FALSE]
      ELSE [exists |-> TRUE, rows |-> table, raised |-> FALSE]

StoreInit ==
  /\ BuildLong
  /\ op = "none"
  /\ arg = <<>>
  /\ ret = AbsentTable

AddRecords(table, subset) ==
  /\ op' = "add_records"
  /\ arg' = [table |-> table, subset |-> subset, existed |-> ret.exists]
  /\ ret' = add_records_subset(ret, table, subset)
  /\ UNCHANGED <<srcvars, db, runvars, histvars>>

\* delete_table: DROP TABLE.
DeleteTable ==
  /\ ret.exists
  /\ op' = "delete_table"
  /\ arg' = <<>>
  /\ ret' = AbsentTable
  /\ UNCHANGED <<srcvars, db, runvars, histvars>>

StoreNext ==
  \/ \E table \in Frames, subset \in Subsets : AddRecords(table, subset)
  \/ DeleteTable

SpecStore == StoreInit /\ [][StoreNext]_vars

\* ------------------------------------------------------ the team resolvers
\* Entries of the team index.
MaxTeams == 6

SEARCH_STATUS_NOT_EXISTS == 1
SEARCH_STATUS_CONFUSE == 2
SEARCH_STATUS_SUCCESS == 3
\* process.extract(..., limit=5, ...)
Limit == 5
FUZZY_MATCH_THRESHOLD == 90
\* match[1] > 70
RecommendThreshold == 70

\* A string is its lower-cased text with the number of its casing: 0 is the
\* lower-cased string itself.
lower(str) == <<str[1], 0>>

\* The names of clubs and countries as persisted: two clubs are both named
\* "Rangers".
TeamNames == << <<"arsenal", 1>>, <<"rangers", 1>>, <<"rangers", 1>>,
                <<"real madrid", 1>>, <<"chelsea", 1>> >>
Words == {"arsenal", "rangers", "real madrid", "chelsea"}
Team(i) == [code |-> i, name |-> TeamNames[((i - 1) % Len(TeamNames)) + 1]]
TeamData(n) == [i \in 1..n |-> Team(i)]

\* The names a caller asks for: an entry's name in another casing, an
\* entry's name as stored, a name two entries share, misspelt names.
Queries == { <<"arsenal", 0>>, <<"arsenal", 1>>, <<"rangers", 2>>,
             <<"arsnal", 1>>, <<"chelsee", 0>> }
Scores == {69, 70, 71, 90}

\* fuzz.WRatio of two strings: 100 when they are equal, else the similarity
\* sim of the compared name.
WRatio(s1, s2, sim) == IF s1 = s2 THEN 100 ELSE sim[s2[1]]

\* process.extract(query, choices, limit=5): the positions of the choices
\* by descending score, earlier choices first among equal scores, cut to the
\* limit.
extract(scores) ==
  LET n == Len(scores)
      before(i, j) == scores[i] > scores[j] \/ (scores[i] = scores[j] /\ i < j)
      rank(i) == Cardinality({j \in 1..n : before(j, i)}) + 1
  IN [k \in 1..Min(Limit, n) |-> CHOOSE i \in 1..n : rank(i) = k]

NotExists(names) ==
  [status |-> SEARCH_STATUS_NOT_EXISTS, code |-> 0, found |-> names]
Confuse(names) ==
  [status |-> SEARCH_STATUS_CONFUSE, code |-> 0, found |-> names]
Success(team) ==
  [status |-> SEARCH_STATUS_SUCCESS, code |-> team.code, found |-> <<team.name>>]

\* _search_team_internal over the module's _ALL_TEAM_DATA (absent: None).
search_team_internal(data, team_name, sim) ==
  LET teams == data.teams
      exact_matches ==
        SelectSeq(teams, LAMBDA team : lower(team.name) = lower(team_name))
      scores == [i \in 1..Len(teams) |-> WRatio(team_name, teams[i].name, sim)]
      matches == extract(scores)
      high == SelectSeq(matches, LAMBDA i : scores[i] >= FUZZY_MATCH_THRESHOLD)
      chosen == CHOOSE i \in 1..Len(teams) :
                  /\ teams[i].name = teams[high[1]].name
                  /\ \A j \in 1..(i - 1) : teams[j].name # teams[high[1]].name
      recommends ==
        SelectSeq(matches, LAMBDA i :
          /\ scores[i] > RecommendThreshold
          /\ \A k \in 1..Len(high) : teams[high[k]].name # teams[i].name)
  IN IF ~data.loaded THEN NotExists(<<>>)
     ELSE IF Len(exact_matches) = 1 THEN Success(exact_matches[1])
     ELSE IF Len(exact_matches) > 1
       THEN Confuse([k \in 1..Len(exact_matches) |-> exact_matches[k].name])
     ELSE IF teams = <<>> THEN NotExists(<<>>)
     ELSE IF Len(high) = 1 THEN Success(teams[chosen])
     ELSE IF Len(high) > 1
       THEN Confuse([k \in 1..Len(high) |-> teams[high[k]].name])
     ELSE NotExists([k \in 1..Len(recommends) |-> teams[recommends[k]].name])

\* search_team taking the first of several exact matches.
SearchTeamFirstExactMutant(teams, team_name, fuzzy_threshold, sim) ==
  LET exact_matches ==
        SelectSeq(teams, LAMBDA team : lower(team.name) = lower(team_name))
  IN IF teams = <<>> \/ exact_matches = <<>> THEN NotExists(<<>>)
     ELSE Success(exact_matches[1])

\* DatabaseManager.search_team over the manager's _all_team_data.
search_team(teams, team_name, fuzzy_threshold, sim) ==
  LET exact_matches ==
        SelectSeq(teams, LAMBDA team : lower(team.name) = lower(team_name))
      scores == [i \in 1..Len(teams) |->
                   WRatio(lower(team_name), lower(teams[i].name), sim)]
      matches == extract(scores)
      high == SelectSeq(matches, LAMBDA i : scores[i] >= fuzzy_threshold)
      candidates == [k \in 1..Len(high) |-> teams[high[k]].name]
  IN IF teams = <<>> THEN NotExists(<<>>)
     ELSE IF Len(exact_matches) = 1 THEN Success(exact_matches[1])
     ELSE IF candidates = <<>> THEN NotExists(<<>>)
     ELSE Confuse(candidates)

\* The index, the name asked for and the similarity of every other name.
ResolveInit ==
  /\ BuildLong
  /\ op = "none"
  /\ ret = <<>>
  /\ \E n \in 0..MaxTeams, q \in Queries, sim \in [Words -> Scores],
        loaded \in BOOLEAN :
       /\ ~loaded => n = 0
       /\ arg = [data |-> [loaded |-> loaded, teams |-> TeamData(n)],
                  team_name |-> q, sim |-> sim]

SearchTeamInternal ==
  /\ op = "none"
  /\ op' = "_search_team_internal"
  /\ ret' = search_team_internal(arg.data, arg.team_name, arg.sim)
  /\ UNCHANGED <<arg, srcvars, db, runvars, histvars>>

SearchTeam ==
  /\ op = "none"
  /\ op' = "search_team"
  /\ ret' = search_team(arg.data.teams, arg.team_name, FUZZY_MATCH_THRESHOLD,
                         arg.sim)
  /\ UNCHANGED <<arg, srcvars, db, runvars, histvars>>

ResolveNext ==
  \/ SearchTeamInternal
  \/ SearchTeam

SpecResolve == ResolveInit /\ [][ResolveNext]_vars

\* ------------------------------------------------------ the query surface
\* The message of a resolution that did not succeed: it names the team asked
\* for and lists the names found.
Msg(team_name, res) ==
  [team |-> team_name, status |-> res.status, found |-> res.found]

\* _check_teams_exist_and_get_codes answering with the message of the first
\* team that failed only.
CheckFirstFailureMutant(data, first_team_input, second_team_input, sim) ==
  LET res1 == search_team_internal(data, first_team_input, sim)
      res2 == search_team_internal(data, second_team_input, sim)
      message_parts ==
        IF res1.status # SEARCH_STATUS_SUCCESS
          THEN <<Msg(first_team_input, res1)>>
        ELSE IF res2.status # SEARCH_STATUS_SUCCESS
          THEN <<Msg(second_team_input, res2)>> ELSE <<>>
  IN IF message_parts # <<>>
       THEN [status |-> SEARCH_STATUS_NOT_EXISTS, message |-> message_parts,
             team_codes |-> <<>>, team_names |-> <<>>]
       ELSE [status |-> SEARCH_STATUS_SUCCESS, message |-> <<>>,
             team_codes |-> <<res1.code, res2.code>>,
             team_names |-> <<res1.found[1], res2.found[1]>>]

\* _check_teams_exist_and_get_codes
check_teams_exist_and_get_codes(data, first_team_input, second_team_input, sim) ==
  LET res1 == search_team_internal(data, first_team_input, sim)
      res2 == search_team_internal(data, second_team_input, sim)
      message_parts ==
        (IF res1.status # SEARCH_STATUS_SUCCESS
           THEN <<Msg(first_team_input, res1)>> ELSE <<>>)
        \o (IF res2.status # SEARCH_STATUS_SUCCESS
              THEN <<Msg(second_team_input, res2)>> ELSE <<>>)
  IN IF message_parts # <<>>
       THEN [status |-> SEARCH_STATUS_NOT_EXISTS, message |-> message_parts,
             team_codes |-> <<>>, team_names |-> <<>>]
       ELSE [status |-> SEARCH_STATUS_SUCCESS, message |-> <<>>,
             team_codes |-> <<res1.code, res2.code>>,
             team_names |-> <<res1.found[1], res2.found[1]>>]

\* What the source answers to a request: a transport error, a page pandas
\* cannot parse, or a page with the matches of the two teams.
H2hPages ==
  { [status |-> "URLError", rows |-> <<>>],
    [status |-> "ParserError", rows |-> <<>>],
    [status |-> "ok", rows |-> <<>>],
    [status |-> "ok", rows |-> <<[Date |-> 1, Code |-> <<"m", 1, 1>>, Comp |-> League]>>] }
Dates == {1, 2}
DetailPages == {"URLError", "ValueError", "ok"}

\* fetch_h2h: _fetch re-raises what urlopen and read_html raise.
fetch_h2h(first_team_name, first_team_code, second_team_name, second_team_code, page) ==
  [raised |-> IF page.status = "ok" THEN "none" ELSE page.status,
   table |-> page.rows,
   url |-> <<first_team_code, second_team_code, first_team_name,
             second_team_name>>]

\* fetch_match_detail: raises what _fetch raises, and ValueError when the
\* page names no home and away team.
fetch_match_detail(match_code, detail) ==
  [raised |-> IF detail = "ok" THEN "none" ELSE detail,
   detail |-> [match |-> match_code]]

Answer(kind, value, raised, calls) ==
  [kind |-> kind, value |-> value, raised |-> raised, fetched |-> calls]

\* get_h2h, from the result of its _check_teams_exist_and_get_codes call:
\* the message of the check, else whatever fetch_h2h does.
get_h2h(check_result, page) ==
  LET h2h == fetch_h2h(check_result.team_names[1], check_result.team_codes[1],
                       check_result.team_names[2], check_result.team_codes[2],
                       page)
  IN IF check_result.status # SEARCH_STATUS_SUCCESS
       THEN Answer("message", check_result.message, "none", <<>>)
       ELSE IF h2h.raised # "none"
         THEN Answer("exception", <<>>, h2h.raised, <<h2h.url>>)
         ELSE Answer("frame", h2h.table, "none", <<h2h.url>>)

\* _search_match_internal, from the result of its check of the two teams:
\* status, message or match, exception, fetches.
search_match_internal(initialized, check_result, date, page) ==
  LET h2h == fetch_h2h(check_result.team_names[1], check_result.team_codes[1],
                       check_result.team_names[2], check_result.team_codes[2],
                       page)
      match_on_date == SelectSeq(h2h.table, LAMBDA row : row.Date = date)
      failure(message, raised, calls) ==
        [status |-> SEARCH_STATUS_NOT_EXISTS, message |-> message,
         match_code |-> <<>>, raised |-> raised, fetched |-> calls]
  IN IF ~initialized
       THEN failure(<<"Database manager not initialized.">>, "none", <<>>)
     ELSE IF check_result.status # SEARCH_STATUS_SUCCESS
       THEN failure(check_result.message, "none", <<>>)
     ELSE IF h2h.raised # "none"
       THEN failure(<<>>, h2h.raised, <<h2h.url>>)
     ELSE IF match_on_date = <<>>
       THEN failure(<<"No match found", date>>, "none", <<h2h.url>>)
     ELSE [status |-> SEARCH_STATUS_SUCCESS, message |-> <<>>,
           match_code |-> match_on_date[1].Code, raised |-> "none",
           fetched |-> <<h2h.url>>]

\* get_match_detail, from the result of its _search_match_internal call:
\* the message of the search, else whatever fetch_match_detail does.
get_match_detail(search_result, detail) ==
  LET match_detail_data == fetch_match_detail(search_result.match_code, detail)
  IN IF search_result.raised # "none"
       THEN Answer("exception", <<>>, search_result.raised,
                   search_result.fetched)
     ELSE IF search_result.status # SEARCH_STATUS_SUCCESS
       THEN Answer("message", search_result.message, "none",
                   search_result.fetched)
     ELSE IF match_detail_data.raised # "none"
       THEN Answer("exception", <<>>, match_detail_data.raised,
                   search_result.fetched \o <<search_result.match_code>>)
     ELSE Answer("detail", match_detail_data.detail, "none",
                 search_result.fetched \o <<search_result.match_code>>)

\* The index as the module holds it when a tool is called: not initialised,
\* empty, or the persisted names.
QueryData ==
  { [loaded |-> FALSE, teams |-> <<>>],
    [loaded |-> TRUE, teams |-> <<>>],
    [loaded |-> TRUE, teams |-> TeamData(MaxTeams)] }

QueryInit ==
  /\ BuildLong
  /\ op = "none"
  /\ ret = <<>>
  /\ \E data \in QueryData, first \in Queries, second \in Queries,
        sim \in [Words -> {69, 90}], page \in H2hPages, date \in Dates,
        detail \in DetailPages :
       arg = [data |-> data, first_team |-> first, second_team |-> second,
              sim |-> sim, page |-> page, date |-> date, detail |-> detail]

GetH2h ==
  /\ op = "none"
  /\ op' = "get_h2h"
  /\ \E check_result \in
          {check_teams_exist_and_get_codes(arg.data, arg.first_team,
                                           arg.second_team, arg.sim)} :
       ret' = get_h2h(check_result, arg.page)
  /\ UNCHANGED <<arg, srcvars, db, runvars, histvars>>

GetMatchDetail ==
  /\ op = "none"
  /\ op' = "get_match_detail"
  /\ \E check_result \in
          {check_teams_exist_and_get_codes(arg.data, arg.first_team,
                                           arg.second_team, arg.sim)} :
       \E search_result \in
           {search_match_internal(arg.data.loaded, check_result, arg.date,
                                  arg.page)} :
         ret' = get_match_detail(search_result, arg.detail)
  /\ UNCHANGED <<arg, srcvars, db, runvars, histvars>>

QueryNext ==
  \/ GetH2h
  \/ GetMatchDetail

SpecQuery == QueryInit /\ [][QueryNext]_vars

\* ------------------------------------------------------ filter_competitions
\* Rows of the competition listing handed to the filter.
MaxComps == 2

ClubInternationalCups == "Club International Cups"
Categories == {"Domestic Leagues - 1st Tier", ClubInternationalCups}
\* A row of the listing; the Competition Index of a row is its position in
\* the listing.
CompFields ==
  [Gender : {"M", "F"}, Category : Categories, Country : {"X", "Y"},
   GoverningBody : {"UEFA", "AFC"}, CompetitionName : {"n1", "n2"}]
CompRow(i, f) ==
  [CompetitionIndex |-> i, Gender |-> f.Gender, Category |-> f.Category,
   Country |-> f.Country, GoverningBody |-> f.GoverningBody,
   CompetitionName |-> f.CompetitionName]
Listings ==
  UNION {{[i \in 1..n |-> CompRow(i, fs[i])] : fs \in [1..n -> CompFields]} :
           n \in 0..MaxComps}
\* comp_filter_config: each allow-list is absent (empty) or names one value.
FilterConfigs ==
  [governing : {{}, {"UEFA"}}, domestic : {{}, {"Domestic Leagues - 1st Tier"}},
   national : {{}, {"n1"}}, country : {{}, {"X"}}]

\* The filter without the final drop_duplicates.
FilterKeepsDuplicatesMutant(competitions_df, comp_filter_config) ==
  LET men == SelectSeq(competitions_df, LAMBDA r : r.Gender = "M")
      domestic_competitions ==
        IF comp_filter_config.domestic # {} /\ comp_filter_config.country # {}
          THEN SelectSeq(men, LAMBDA r :
                 /\ r.Category \in comp_filter_config.domestic
                 /\ r.Country \in comp_filter_config.country)
          ELSE <<>>
      club_international_competitions ==
        IF comp_filter_config.governing # {}
          THEN SelectSeq(men, LAMBDA r :
                 /\ r.GoverningBody \in comp_filter_config.governing
                 /\ r.Category = ClubInternationalCups)
          ELSE <<>>
      national_competitions ==
        IF comp_filter_config.national # {}
          THEN SelectSeq(men, LAMBDA r :
                 r.CompetitionName \in comp_filter_config.national)
          ELSE <<>>
  IN domestic_competitions \o national_competitions
       \o club_international_competitions

\* The filter with the domestic rule as a disjunction.
FilterDomesticEitherMutant(competitions_df, comp_filter_config) ==
  LET men == SelectSeq(competitions_df, LAMBDA r : r.Gender = "M")
      domestic_competitions ==
        IF comp_filter_config.domestic # {} /\ comp_filter_config.country # {}
          THEN SelectSeq(men, LAMBDA r :
                 \/ r.Category \in comp_filter_config.domestic
                 \/ r.Country \in comp_filter_config.country)
          ELSE <<>>
  IN drop_duplicates_subset(domestic_competitions, {"CompetitionIndex"})

\* filter_competitions: the men's competitions of the three rules, in the
\* order domestic, national, club international, one row per Competition
\* Index.
filter_competitions(competitions_df, comp_filter_config) ==
  LET men == SelectSeq(competitions_df, LAMBDA r : r.Gender = "M")
      domestic_competitions ==
        IF comp_filter_config.domestic # {} /\ comp_filter_config.country # {}
          THEN SelectSeq(men, LAMBDA r :
                 /\ r.Category \in comp_filter_config.domestic
                 /\ r.Country \in comp_filter_config.country)
          ELSE <<>>
      club_international_competitions ==
        IF comp_filter_config.governing # {}
          THEN SelectSeq(men, LAMBDA r :
                 /\ r.GoverningBody \in comp_filter_config.governing
                 /\ r.Category = ClubInternationalCups)
          ELSE <<>>
      national_competitions ==
        IF comp_filter_config.national # {}
          THEN SelectSeq(men, LAMBDA r :
                 r.CompetitionName \in comp_filter_config.national)
          ELSE <<>>
  IN drop_duplicates_subset(
       domestic_competitions \o national_competitions
         \o club_international_competitions,
       {"CompetitionIndex"})

FilterInit ==
  /\ BuildLong
  /\ op = "none"
  /\ ret = <<>>
  /\ \E df \in Listings, cfg \in FilterConfigs :
       arg = [competitions_df |-> df, comp_filter_config |-> cfg]

FilterCompetitions ==
  /\ op = "none"
  /\ op' = "filter_competitions"
  /\ ret' = filter_competitions(arg.competitions_df, arg.comp_filter_config)
  /\ UNCHANGED <<arg, srcvars, db, runvars, histvars>>

FilterNext == FilterCompetitions

SpecFilter == FilterInit /\ [][FilterNext]_vars

\* -------------------------------------------------------------- clean_table
\* Rows of a raw table.
MaxTableRows == 2

\* A value is its kind and its text: a string, a number, a null (NaN).
Null == <<"null", "">>
Cells == {<<"str", "A">>, <<"str", "B">>, <<"str", "x">>, <<"num", "7">>, Null}
\* The labels of the (leaf level of the) header.
Labels == {<<"str", "A">>, <<"str", "B">>, <<"num", "7">>}
ColumnPositions == {1, 2}
RawTables ==
  [nlevels : {1, 2}, columns : [ColumnPositions -> Labels],
   rows : UNION {[1..n -> [ColumnPositions -> Cells]] : n \in 0..MaxTableRows}]

\* astype(str): the text of a value as a string, 'nan' for a null.
astype_str(v) == <<"str", IF v = Null THEN "nan" ELSE v[2]>>

\* The rows of a table at the given positions, in their order.
RowsAt(table, keep) ==
  LET idx == Ascending(keep)
  IN [table EXCEPT !.rows = [k \in 1..Len(idx) |-> table.rows[idx[k]]]]

\* clean_table dropping a row as soon as one of its values is a column name.
CleanAnyCellMutant(table) ==
  LET cols == IF table.nlevels = 2
                THEN {astype_str(table.columns[c]) : c \in ColumnPositions}
                ELSE {table.columns[c] : c \in ColumnPositions}
      is_header(row) == \E c \in ColumnPositions : astype_str(row[c]) \in cols
      all_null(row) == \A c \in ColumnPositions : row[c] = Null
  IN RowsAt(table, {i \in 1..Len(table.rows) :
                      ~is_header(table.rows[i]) /\ ~all_null(table.rows[i])})

\* clean_table: cols are the level-1 labels as strings for a two-level
\* header, the labels themselves otherwise; a row goes when all its values,
\* as strings, are in cols, or when all its values are null.
clean_table(table) ==
  LET cols == IF table.nlevels = 2
                THEN {astype_str(table.columns[c]) : c \in ColumnPositions}
                ELSE {table.columns[c] : c \in ColumnPositions}
      is_header(row) == \A c \in ColumnPositions : astype_str(row[c]) \in cols
      all_null(row) == \A c \in ColumnPositions : row[c] = Null
  IN RowsAt(table, {i \in 1..Len(table.rows) :
                      ~is_header(table.rows[i]) /\ ~all_null(table.rows[i])})

CleanInit ==
  /\ BuildLong
  /\ op = "none"
  /\ ret = <<>>
  /\ \E table \in RawTables : arg = [table |-> table]

CleanTable ==
  /\ op = "none"
  /\ op' = "clean_table"
  /\ ret' = clean_table(arg.table)
  /\ UNCHANGED <<arg, srcvars, db, runvars, histvars>>

\* clean_table on what clean_table returned.
CleanTableAgain ==
  /\ op = "clean_table"
  /\ op' = "clean_table twice"
  /\ ret' = clean_table(ret)
  /\ UNCHANGED <<arg, srcvars, db, runvars, histvars>>

CleanNext ==
  \/ CleanTable
  \/ CleanTableAgain

SpecClean == CleanInit /\ [][CleanNext]_vars

\* ---------------------------------------------------------- process_fixture
\* Digits of a score.
MaxDigits == 2

\* A text is a sequence of characters; the dashes that are no hyphen are
\* written by their names.
Digit == {"1", "2"}
Dashes == {"endash", "emdash", "minus"}
Space == {" "}
DigitStrings == UNION {[1..n -> Digit] : n \in 1..MaxDigits}
\* No text: a capture group that took no part in the match, a null cell.
NoText == <<"none">>

\* The number of characters of t from position i on that are in S.
Run(t, i, S) ==
  CHOOSE n \in 0..Len(t) :
    /\ \A k \in 0..(n - 1) : i + k <= Len(t) /\ t[i + k] \in S
    /\ i + n > Len(t) \/ t[i + n] \notin S
At(t, i, c) == i <= Len(t) /\ t[i] = c

\* fillna('').str.replace(r'[...]', '-').str.strip()
Normalize(cell) ==
  LET text == IF cell = NoText THEN <<>> ELSE cell
      hyphened == [i \in 1..Len(text) |->
                     IF text[i] \in Dashes THEN "-" ELSE text[i]]
      first == 1 + Run(hyphened, 1, Space)
      last == CHOOSE j \in 0..Len(hyphened) :
                /\ \A k \in (j + 1)..Len(hyphened) : hyphened[k] \in Space
                /\ j = 0 \/ hyphened[j] \notin Space
  IN IF first > last THEN <<>> ELSE SubSeq(hyphened, first, last)

\* (?:\((\d*)\)\s*)? at position i: the group, and where the match goes on.
LeadAt(t, i) ==
  LET p == Run(t, i + 1, Digit)
  IN IF At(t, i, "(") /\ At(t, i + 1 + p, ")")
       THEN [ok |-> TRUE, group |-> SubSeq(t, i + 1, i + p),
             next |-> i + 2 + p + Run(t, i + 2 + p, Space)]
       ELSE [ok |-> FALSE, group |-> NoText, next |-> i]

\* (\d+)\s*-\s*(\d+) at position i.
CoreAt(t, i) ==
  LET n1 == Run(t, i, Digit)
      dash == i + n1 + Run(t, i + n1, Space)
      second == dash + 1 + Run(t, dash + 1, Space)
      n2 == Run(t, second, Digit)
  IN IF n1 > 0 /\ At(t, dash, "-") /\ n2 > 0
       THEN [ok |-> TRUE, home |-> SubSeq(t, i, i + n1 - 1),
             away |-> SubSeq(t, second, second + n2 - 1), next |-> second + n2]
       ELSE [ok |-> FALSE, home |-> NoText, away |-> NoText, next |-> i]

\* (?:\s*\((\d*)\))? at position i.
TrailAt(t, i) ==
  LET open == i + Run(t, i, Space)
      p == Run(t, open + 1, Digit)
  IN IF At(t, open, "(") /\ At(t, open + 1 + p, ")")
       THEN SubSeq(t, open + 1, open + p)
       ELSE NoText

\* The pattern at position i: with the leading group when the rest matches
\* behind it, else without it.
MatchAt(t, i) ==
  LET lead == LeadAt(t, i)
      withLead == CoreAt(t, lead.next)
      without == CoreAt(t, i)
  IN IF lead.ok /\ withLead.ok
       THEN [ok |-> TRUE,
             groups |-> <<lead.group, withLead.home, withLead.away,
                          TrailAt(t, withLead.next)>>]
       ELSE IF without.ok
         THEN [ok |-> TRUE,
               groups |-> <<NoText, without.home, without.away,
                            TrailAt(t, without.next)>>]
         ELSE [ok |-> FALSE, groups |-> <<NoText, NoText, NoText, NoText>>]

\* Series.str.extract(pattern): the groups of the first match in the text,
\* wherever it starts.
str_extract(t) ==
  LET starts == {i \in 1..Len(t) : MatchAt(t, i).ok}
  IN IF starts = {} THEN <<NoText, NoText, NoText, NoText>>
     ELSE MatchAt(t, CHOOSE i \in starts : \A j \in starts : i <= j).groups

RECURSIVE Decimal(_)
Decimal(digits) ==
  IF digits = <<>> THEN 0
  ELSE 10 * Decimal(SubSeq(digits, 1, Len(digits) - 1))
         + (IF digits[Len(digits)] = "1" THEN 1 ELSE 2)

\* pd.to_numeric(errors='coerce'): the number, a null (written <<>>) for no
\* text and for the empty text.
to_numeric(text) ==
  IF text = NoText \/ text = <<>> THEN <<>> ELSE <<Decimal(text)>>

\* process_fixture on one Score cell: the four new columns.
process_fixture(cell) ==
  LET matches == str_extract(Normalize(cell))
  IN [HomeScore |-> to_numeric(matches[2]), AwayScore |-> to_numeric(matches[3]),
      HomePenalty |-> to_numeric(matches[1]),
      AwayPenalty |-> to_numeric(matches[4])]

\* The parts a Score cell is written from: text before the score, a leading
\* parenthesis, the two numbers and the sign between them, a trailing
\* parenthesis, text behind the score.
Junk == {<<>>, <<"x">>, <<"1", "-">>, <<" ">>}
Parens == {NoText, <<>>, <<"2">>}
Signs == {"-", "endash", "emdash", ":"}
ScoreParts ==
  [before : Junk, lead : Parens, home : DigitStrings, sign : Signs,
   away : DigitStrings, trail : Parens, behind : Junk]
Written(parts) ==
  parts.before
    \o (IF parts.lead = NoText THEN <<>> ELSE <<"(">> \o parts.lead \o <<")", " ">>)
    \o parts.home \o <<parts.sign>> \o parts.away
    \o (IF parts.trail = NoText THEN <<>> ELSE <<" ", "(">> \o parts.trail \o <<")">>)
    \o parts.behind

ScoreInit ==
  /\ BuildLong
  /\ op = "none"
  /\ ret = <<>>
  /\ \/ \E parts \in ScoreParts :
          arg = [kind |-> "written", parts |-> parts, cell |-> Written(parts)]
     \/ \E cell \in {NoText, <<>>, <<"x">>} :
          arg = [kind |-> "other", cell |-> cell]

ProcessFixture ==
  /\ op = "none"
  /\ op' = "process_fixture"
  /\ ret' = process_fixture(arg.cell)
  /\ UNCHANGED <<arg, srcvars, db, runvars, histvars>>

ScoreNext == ProcessFixture

SpecScore == ScoreInit /\ [][ScoreNext]_vars

\* ----------------------------------- add_match_code, split_champion_column
\* Rows of a raw table, links of its markup.
MaxFixtureRows == 3
MaxHrefs == 3

\* The cells of a report column: the text of a completed match, the link of
\* a match still to play, no cell.
ReportCells == {"Match Report", "Head-to-Head", "nan"}
\* The report column a table has: a schedule or head-to-head page has
\* 'Match Report', the history page of a cup 'Final', other tables none.
ReportColumns == {"Match Report", "Final", "none"}
MatchPages == {"a", "b", "c"}
RawFixtures ==
  [column : ReportColumns,
   rows : UNION {[1..n -> ReportCells] : n \in 0..MaxFixtureRows}]
\* The match codes of the hrefs that match the pattern, in markup order.
Hrefs == UNION {[1..n -> MatchPages] : n \in 0..MaxHrefs}

\* list(dict.fromkeys(match_codes)): each code once, at its first place.
RECURSIVE fromkeys(_)
fromkeys(codes) ==
  IF codes = <<>> THEN <<>>
  ELSE LET front == SubSeq(codes, 1, Len(codes) - 1)
           last == codes[Len(codes)]
       IN IF \E i \in 1..Len(front) : front[i] = last
            THEN fromkeys(front)
            ELSE fromkeys(front) \o <<last>>

Raised(e) == [raised |-> e, report |-> FALSE, MatchCode |-> <<>>]

\* add_match_code(table, html_tag): the exception that leaves it, or the
\* 'Match Code' column of the table it returns and whether that table still
\* has the report column.
add_match_code_table(table, hrefs) ==
  LET codes == fromkeys(hrefs)
      n == Len(table.rows)
      present == table.column # "none"
      mask == {i \in 1..n : present /\ table.rows[i] = "Match Report"}
      marked == Cardinality(mask)
      first_match_idx == CHOOSE i \in mask : \A j \in mask : i <= j
  IN IF present /\ marked > 0 /\ Len(codes) < marked
       \* table.loc[mask, 'Match Code'] = match_codes[:mask.sum()]
       THEN Raised("ValueError")
     ELSE IF codes # <<>>
       THEN IF ~present THEN Raised("KeyError")
            ELSE IF mask = {} THEN Raised("IndexError")
            ELSE [raised |-> "none", report |-> FALSE,
                  MatchCode |->
                    [i \in 1..n |->
                       IF i \in mask
                         THEN codes[Cardinality({j \in mask : j <= i})]
                       ELSE IF i < first_match_idx THEN "Not yet played"
                       ELSE "No data available"]]
     ELSE [raised |-> "none", report |-> FALSE,
           MatchCode |-> [i \in 1..n |-> "Not yet played"]]

\* The cells of a 'Champion' column: a name with points, a name with a
\* hyphen and no points, a bare name, no cell.
ChampionCells == {"Real Madrid - 95", "Saint-Etienne", "Arsenal", "nan"}
\* A column without a single text is float64 as read_html leaves it, object
\* once clean_table has dropped the repeated headers from it.
ChampionColumns ==
  { col \in [dtype : {"float64", "object"},
             cells : UNION {[1..n -> ChampionCells] : n \in 1..MaxFixtureRows}] :
      col.dtype = "float64" => \A i \in 1..Len(col.cells) : col.cells[i] = "nan" }
Hyphened == {"Real Madrid - 95", "Saint-Etienne"}
SeasonNotFinished == "Season not finished yet"

\* split_champion_column: .str raises on a float64 column, split_data[1] when
\* no cell had a hyphen to split on.
split_champion_column(col) ==
  LET n == Len(col.cells)
  IN IF col.dtype = "float64" THEN [raised |-> "AttributeError", rows |-> <<>>]
     ELSE IF \A i \in 1..n : col.cells[i] \notin Hyphened
       THEN [raised |-> "KeyError", rows |-> <<>>]
     ELSE [raised |-> "none",
           rows |-> [i \in 1..n |->
             IF col.cells[i] = "Real Madrid - 95"
               THEN [Champion |-> "Real Madrid", Points |-> "95.0"]
             ELSE IF col.cells[i] = "Saint-Etienne"
               THEN [Champion |-> "Saint", Points |-> SeasonNotFinished]
             ELSE IF col.cells[i] = "Arsenal"
               THEN [Champion |-> "Arsenal", Points |-> SeasonNotFinished]
             ELSE [Champion |-> SeasonNotFinished,
                   Points |-> SeasonNotFinished]]]

AttachInit ==
  /\ BuildLong
  /\ op = "none"
  /\ ret = <<>>
  /\ \/ \E table \in RawFixtures, hrefs \in Hrefs :
          arg = [kind |-> "fixture", table |-> table, hrefs |-> hrefs]
     \/ \E col \in ChampionColumns :
          arg = [kind |-> "history", Champion |-> col]

AddMatchCode ==
  /\ op = "none"
  /\ arg.kind = "fixture"
  /\ op' = "add_match_code"
  /\ ret' = add_match_code_table(arg.table, arg.hrefs)
  /\ UNCHANGED <<arg, srcvars, db, runvars, histvars>>

SplitChampionColumn ==
  /\ op = "none"
  /\ arg.kind = "history"
  /\ op' = "split_champion_column"
  /\ ret' = split_champion_column(arg.Champion)
  /\ UNCHANGED <<arg, srcvars, db, runvars, histvars>>

AttachNext ==
  \/ AddMatchCode
  \/ SplitChampionColumn

SpecAttach == AttachInit /\ [][AttachNext]_vars

\* ------------------------------------------------------------------ _fetch
\* Calls of _fetch in one process.
MaxCalls == 4

Urls == {"schedule/1", "schedule/2"}
\* What the source does with a request: it serves a page with tables, it
\* fails in transport, it serves a page read_html finds no table in.
Responses == {"ok", "URLError", "ValueError"}

\* A fresh process: lru_cache is empty, nothing was requested.
FreshProcess ==
  [cache |-> {}, requests |-> [u \in Urls |-> 0], log |-> <<>>, calls |-> 0,
   memo |-> FALSE, raised |-> "none", none |-> FALSE]

\* _fetch without @lru_cache.
FetchUncachedMutant(process, url, response) ==
  LET request == <<[event |-> "urlopen", url |-> url]>>
      asked == [process EXCEPT !.requests[url] = @ + 1, !.calls = @ + 1,
                               !.memo = FALSE, !.none = FALSE]
  IN IF response = "ok"
       THEN [asked EXCEPT
               !.log = @ \o request \o <<[event |-> "sleep", url |-> url]>>,
               !.raised = "none"]
       ELSE [asked EXCEPT !.log = @ \o request, !.raised = response]

\* _fetch(url) under @lru_cache(maxsize=None): a call that returned is
\* answered from the cache from then on, a call that raised is not; the
\* sleep is the last statement before the return.
fetch(process, url, response) ==
  LET request == <<[event |-> "urlopen", url |-> url]>>
      asked == [process EXCEPT !.requests[url] = @ + 1, !.calls = @ + 1,
                               !.memo = FALSE, !.none = FALSE]
  IN IF url \in process.cache
       THEN [process EXCEPT !.calls = @ + 1, !.memo = TRUE, !.raised = "none",
                            !.none = FALSE]
     ELSE IF response = "ok"
       THEN [asked EXCEPT
               !.cache = @ \cup {url},
               !.log = @ \o request \o <<[event |-> "sleep", url |-> url]>>,
               !.raised = "none"]
     ELSE [asked EXCEPT !.log = @ \o request, !.raised = response]

FetchInit ==
  /\ BuildLong
  /\ op = "none"
  /\ arg = <<>>
  /\ ret = FreshProcess

\* A caller that lets the exception of _fetch pass (fetch_history, fetch_h2h,
\* fetch_fixture by match code, ...).
Fetch(url, response) ==
  /\ ret.calls < MaxCalls
  /\ op' = "_fetch"
  /\ arg' = [url |-> url, response |-> response]
  /\ ret' = fetch(ret, url, response)
  /\ UNCHANGED <<srcvars, db, runvars, histvars>>

\* fetch_fixture by season: try: _fetch(url) except: return None.
FetchFixture(url, response) ==
  /\ ret.calls < MaxCalls
  /\ op' = "fetch_fixture"
  /\ arg' = [url |-> url, response |-> response]
  /\ \E process \in {fetch(ret, url, response)} :
       ret' = [process EXCEPT !.raised = "none",
                              !.none = process.raised # "none"]
  /\ UNCHANGED <<srcvars, db, runvars, histvars>>

\* The process ends and a new one starts.
NewProcess ==
  /\ ret.calls > 0
  /\ op' = "none"
  /\ arg' = <<>>
  /\ ret' = FreshProcess
  /\ UNCHANGED <<srcvars, db, runvars, histvars>>

FetchNext ==
  \/ \E url \in Urls, response \in Responses : Fetch(url, response)
  \/ \E url \in Urls, response \in Responses : FetchFixture(url, response)
  \/ NewProcess

SpecFetch == FetchInit /\ [][FetchNext]_vars

\* ------------------------------------------- the team index of a manager
\* Clubs the source knows.
MaxClubs == 2

\* The {code, name} projections of the rows a Club or a Country table can
\* hold.
ClubTeams == {[code |-> <<"club", i>>, name |-> <<"club", i>>] : i \in 1..MaxClubs}
CountryTeams == {[code |-> <<"nation", 1>>, name |-> <<"nation", 1>>]}
TeamTables == {"Club", "Country"}
TeamsOf(table_name) == IF table_name = "Club" THEN ClubTeams ELSE CountryTeams

\* The database file: the tables it has and their rows.  No file and a file
\* without tables answer alike.
NoDatabase == [tables |-> {}, rows |-> [t \in TeamTables |-> {}]]
Databases ==
  { d \in [tables : SUBSET TeamTables,
           rows : [TeamTables -> SUBSET (ClubTeams \cup CountryTeams)]] :
      \A t \in TeamTables :
        /\ d.rows[t] \subseteq TeamsOf(t)
        /\ t \notin d.tables => d.rows[t] = {} }

\* initialize_team_data: both tables or nothing.
initialize_team_data(d) ==
  IF ~("Club" \in d.tables /\ "Country" \in d.tables)
    THEN {}
    ELSE d.rows["Club"] \cup d.rows["Country"]

\* to_sql(if_exists=...) on the Club or the Country table.
to_sql(d, table_name, df, if_exists) ==
  [tables |-> d.tables \cup {table_name},
   rows |-> [d.rows EXCEPT ![table_name] =
               IF if_exists = "replace" THEN df ELSE @ \cup df]]

IndexInit ==
  /\ BuildLong
  /\ op = "none"
  /\ arg = <<>>
  /\ \E d \in Databases :
       ret = [database |-> d, manager |-> FALSE, all_team_data |-> {},
              status |-> 0]

\* DatabaseManager(db_name, saved_path): __init__ loads the index.
NewManager ==
  /\ op' = "DatabaseManager"
  /\ arg' = <<>>
  /\ ret' = [ret EXCEPT !.manager = TRUE,
                         !.all_team_data = initialize_team_data(ret.database),
                         !.status = 0]
  /\ UNCHANGED <<srcvars, db, runvars, histvars>>

\* initialize_database(overwrite): removes the file, leaves the index.
InitializeDatabase(overwrite) ==
  /\ ret.manager
  /\ op' = "initialize_database"
  /\ arg' = [overwrite |-> overwrite]
  /\ ret' = [ret EXCEPT !.database = IF overwrite THEN NoDatabase ELSE @,
                         !.status = 0]
  /\ UNCHANGED <<srcvars, db, runvars, histvars>>

\* write_dataframe on Club or Country, as build_database does.
WriteTeams(table_name, df, if_exists) ==
  /\ ret.manager
  /\ op' = "write_dataframe"
  /\ arg' = [table_name |-> table_name, df |-> df, if_exists |-> if_exists]
  /\ ret' = [ret EXCEPT !.database = to_sql(@, table_name, df, if_exists),
                         !.status = 0]
  /\ UNCHANGED <<srcvars, db, runvars, histvars>>

\* search_team(team_name): answers from self._all_team_data; an empty index
\* is "not initialized", a name of the index is found.
SearchCached(team) ==
  /\ ret.manager
  /\ op' = "search_team"
  /\ arg' = [team_name |-> team.name]
  /\ ret' = [ret EXCEPT !.status =
                IF ret.all_team_data = {} THEN SEARCH_STATUS_NOT_EXISTS
                ELSE IF team \in ret.all_team_data THEN SEARCH_STATUS_SUCCESS
                ELSE SEARCH_STATUS_NOT_EXISTS]
  /\ UNCHANGED <<srcvars, db, runvars, histvars>>

IndexNext ==
  \/ NewManager
  \/ \E overwrite \in BOOLEAN : InitializeDatabase(overwrite)
  \/ \E table_name \in TeamTables, if_exists \in {"replace", "append"} :
       \E df \in (SUBSET TeamsOf(table_name)) \ {{}} :
         WriteTeams(table_name, df, if_exists)
  \/ \E team \in ClubTeams \cup CountryTeams : SearchCached(team)

SpecIndex == IndexInit /\ [][IndexNext]_vars

\* ----------------------------------------------------------- properties
\* The season at index 0 of the available-season list of a competition.
HasLatest(d, c) == 0 \in DOMAIN avail_seasons(d.History[c])
Latest(d, c) == avail_seasons(d.History[c])[0]
IsLatest(d, c, s) == HasLatest(d, c) /\ Latest(d, c) = s

ClubRows(d, country) ==
  [r \in {x \in BagToSet(d.bag[TClub]) : x.Country = country} |-> d.bag[TClub][r]]
SeasonFrame(d, c, s) == [r \in RowsOf(d, c, s) |-> d.bag[TFixture(c)][r]]
ClubCountries(d) == {r.Country : r \in BagToSet(d.bag[TClub])}

\* C1: when the fixture phase raises the structural error for a missing
\* '<competition> History' table, the run has performed no write at all.
C1_NoWriteBeforeStructuralError ==
  err = "ValueError: History" => nwrites = 0

C3_EveryMissingSeasonFetched ==
  pc = "done" =>
    \A c \in planned :
      LET av == avail_seasons(db.History[c])
      IN \A i \in DOMAIN av :
           av[i] \notin exists_seasons(pre, c) =>
             /\ <<c, av[i]>> \in fetched
             /\ (<<c, av[i]>> \notin failed /\ fault # Blank(<<c, av[i]>>))
                  => av[i] \in SeasonsIn(db, c)

\* C4: a season the run found persisted and that is not at index 0 of the
\* available-season list is not fetched, and its rows stay as they were.
C4_OlderSeasonUntouched ==
  pc # "idle" =>
    \A c \in Comps :
      \A s \in exists_seasons(pre, c) :
        ~IsLatest(db, c, s) =>
          /\ <<c, s>> \notin fetched
          /\ RowsOf(db, c, s) = RowsOf(pre, c, s)

\* A completed run has written another season of a competition and left an
\* older persisted season alone although the source has changed its page.
C4_Witness ==
  /\ pc = "done"
  /\ epoch > 0
  /\ \E c \in planned :
       \E s \in exists_seasons(pre, c) :
         /\ ~IsLatest(db, c, s)
         /\ \E s2 \in 1..nLeague : s2 # s /\ <<c, s2>> \in written
         /\ c = League /\ RowsOf(db, c, s) # BagToSet(WithSeason(SchedulePage(s), s))

\* C5: after the latest season of an existing fixture table is re-synced,
\* the rows of that season are exactly the rows of the fresh fetch.
C5_LatestSeasonReplaced ==
  \A p \in written :
    (is_table_existing(pre, TFixture(p[1])) /\ IsLatest(db, p[1], p[2]))
      => RowsOf(db, p[1], p[2]) = BagToSet(got[p])

\* C6: a fetch that fails for a selected season is skipped: the exception
\* does not leave build_database, nothing is written for that season, and a
\* run that completes has fetched every selected season.
C6_FailedFetchSkipped ==
  failed # {} =>
    /\ err # "URLError"
    /\ \A p \in failed : RowsOf(db, p[1], p[2]) = RowsOf(pre, p[1], p[2])
    /\ pc = "done" => selected \subseteq fetched

\* C7: a fixture-phase run that repeats a finished run, with the source and
\* the configuration unchanged, leaves every fixture table with the rows it
\* found.
C7_SecondRunChangesNothing ==
  (pc \in {"done", "raised"} /\ again /\ "fixture" \in update) =>
    \A c \in Comps :
      /\ is_table_existing(db, TFixture(c)) = is_table_existing(pre, TFixture(c))
      /\ BagToSet(db.bag[TFixture(c)]) = BagToSet(pre.bag[TFixture(c)])

\* C8: when a run that restarts a terminated run completes, every season
\* present in a fixture table has exactly the rows last fetched for it, once
\* each.
C8_RestartLeavesExactRows ==
  (pc = "done" /\ resumed /\ "fixture" \in update) =>
    \A c \in Comps :
      \A s \in SeasonsIn(db, c) :
        /\ <<c, s>> \in DOMAIN got
        /\ SeasonFrame(db, c, s) = got[<<c, s>>]

\* C9: a country that has rows in the Club table when the run starts is not
\* fetched by the club phase and its Club rows stay as they were.
C9_PersistedCountrySkipped ==
  pc # "idle" =>
    \A country \in ClubCountries(pre) :
      /\ country \notin clubFetched
      /\ ClubRows(db, country) = ClubRows(pre, country)

\* A completed run has fetched the clubs of another country and skipped a
\* persisted country whose roster has changed at the source.
C9_Witness ==
  /\ pc = "done"
  /\ clubFetched # {}
  /\ \E country \in ClubCountries(pre) :
       ClubRows(db, country) # MenOnly(fetch_club(country))

\* C10: the Club table never holds two rows with the same Country and Club
\* Code.
C10_ClubKeyUnique ==
  LET club == db.bag[TClub]
  IN \A r \in BagToSet(club) :
       /\ club[r] = 1
       /\ \A q \in BagToSet(club) :
            (q.Country = r.Country /\ q.ClubCode = r.ClubCode) => q = r

\* The run that restarts a terminated club phase has completed, and the
\* Club table holds the clubs of two countries.
C10_Witness ==
  /\ pc = "done"
  /\ resumed
  /\ "club" \in update
  /\ Cardinality(ClubCountries(db)) >= 2
  /\ ClubCountries(pre) # {}

\* C11: no fixture table holds two rows with the same match code, sentinels
\* apart, whatever runs of the fixture phase have written it and also after
\* the latest season was re-synced with a changed record of a stored match.
C11_MatchCodeUnique ==
  \A c \in Comps :
    LET t == db.bag[TFixture(c)]
    IN \A r \in BagToSet(t) :
         r.Code \notin Sentinels =>
           /\ t[r] = 1
           /\ \A q \in BagToSet(t) : q.Code = r.Code => q = r

\* C12: after add_records returns, the stored table has no two rows equal
\* on the subset columns (on every column when subset is None), whether the
\* table existed before the call or not.
C12_NoDuplicateOnSubset ==
  (op = "add_records" /\ ~ret.raised) =>
    LET cols == IF arg.subset = None THEN Columns ELSE arg.subset
    IN \A i, j \in 1..Len(ret.rows) :
         i # j => \E col \in cols : ret.rows[i][col] # ret.rows[j][col]

\* The entries whose name equals the name asked for, ignoring case, and the
\* high-confidence matches among the top five of the similarity scoring.
ExactHits == {i \in 1..Len(arg.data.teams) :
                lower(arg.data.teams[i].name) = lower(arg.team_name)}
Resolved == op \in {"_search_team_internal", "search_team"}
TopFive ==
  extract([i \in 1..Len(arg.data.teams) |->
             WRatio(arg.team_name, arg.data.teams[i].name, arg.sim)])
ScoreOf(i) == WRatio(arg.team_name, arg.data.teams[i].name, arg.sim)
HighConfidence == SelectSeq(TopFive, LAMBDA i : ScoreOf(i) >= 90)
NamesOf(positions) ==
  [k \in 1..Len(positions) |-> arg.data.teams[positions[k]].name]

\* C13: in both resolvers, when exactly one index entry has the name asked
\* for, ignoring case, the result is SUCCESS with that entry's code; when
\* several entries have it, the result is AMBIGUOUS.
C13_ExactMatchResolves ==
  Resolved =>
    /\ \A i \in ExactHits :
         ExactHits = {i} =>
           /\ ret.status = SEARCH_STATUS_SUCCESS
           /\ ret.code = arg.data.teams[i].code
    /\ Cardinality(ExactHits) > 1 => ret.status = SEARCH_STATUS_CONFUSE

\* DatabaseManager.search_team was asked, in another casing, for a name two
\* entries share.
C13_Witness ==
  /\ op = "search_team"
  /\ Cardinality(ExactHits) > 1
  /\ \A i \in ExactHits : arg.data.teams[i].name # arg.team_name
  /\ ret.status = SEARCH_STATUS_CONFUSE

\* C14: in both resolvers, when no entry has the name asked for, the result
\* is SUCCESS with the entry's code for one high-confidence match among the
\* top five, AMBIGUOUS listing them all for several, NOT_FOUND for none.
C14_HighConfidenceDecides ==
  (Resolved /\ ExactHits = {}) =>
    /\ Len(HighConfidence) = 1 =>
         /\ ret.status = SEARCH_STATUS_SUCCESS
         /\ ret.code = arg.data.teams[HighConfidence[1]].code
    /\ Len(HighConfidence) > 1 =>
         /\ ret.status = SEARCH_STATUS_CONFUSE
         /\ ret.found = NamesOf(HighConfidence)
    /\ Len(HighConfidence) = 0 => ret.status = SEARCH_STATUS_NOT_EXISTS

InDomestic(r) ==
  /\ r.Category \in arg.comp_filter_config.domestic
  /\ r.Country \in arg.comp_filter_config.country
InClubInternational(r) ==
  /\ r.GoverningBody \in arg.comp_filter_config.governing
  /\ r.Category = "Club International Cups"
InNational(r) == r.CompetitionName \in arg.comp_filter_config.national
Occurrences(rows, index) ==
  Cardinality({k \in 1..Len(rows) : rows[k].CompetitionIndex = index})

\* C17: every row filter_competitions returns satisfies one of the three
\* rules in full, and no two returned rows share a Competition Index.
C17_OnlyFullRuleMatches ==
  op = "filter_competitions" =>
    \A k \in 1..Len(ret) :
      /\ InDomestic(ret[k]) \/ InClubInternational(ret[k]) \/ InNational(ret[k])
      /\ Occurrences(ret, ret[k].CompetitionIndex) = 1

\* The filter has returned a competition and left out a men's competition
\* of an allowed category in a country that is not allowed.
C17_Witness ==
  /\ op = "filter_competitions"
  /\ ret # <<>>
  /\ \E i \in 1..Len(arg.competitions_df) :
       LET r == arg.competitions_df[i]
       IN /\ r.Gender = "M"
          /\ r.Category \in arg.comp_filter_config.domestic
          /\ r.Country \notin arg.comp_filter_config.country
          /\ arg.comp_filter_config.country # {}
          /\ Occurrences(ret, r.CompetitionIndex) = 0

ColumnNames(table) == {astype_str(table.columns[c]) : c \in ColumnPositions}
HeaderRepeat(table, row) ==
  \A c \in ColumnPositions : astype_str(row[c]) \in ColumnNames(table)
EntirelyNull(row) == \A c \in ColumnPositions : row[c] = Null
IsSubsequence(a, b) ==
  \E f \in [1..Len(a) -> 1..Len(b)] :
    /\ \A i \in 1..Len(a) : a[i] = b[f[i]]
    /\ \A i, j \in 1..Len(a) : i < j => f[i] < f[j]

\* C19: clean_table applied twice gives what it gives applied once; it
\* returns a table without header-repeat and entirely-null rows as it is;
\* the rows it keeps are a subsequence of the rows it was given.
C19_CleanTableIdempotent ==
  /\ op = "clean_table" =>
       /\ IsSubsequence(ret.rows, arg.table.rows)
       /\ ret.columns = arg.table.columns
       /\ (\A i \in 1..Len(arg.table.rows) :
             /\ ~HeaderRepeat(arg.table, arg.table.rows[i])
             /\ ~EntirelyNull(arg.table.rows[i]))
            => ret = arg.table
  /\ op = "clean_table twice" => ret = clean_table(arg.table)

\* clean_table has run twice on a table from which its first run dropped a
\* header-repeat row and kept another row.
C19_Witness ==
  /\ op = "clean_table twice"
  /\ ret.rows # <<>>
  /\ Len(ret.rows) < Len(arg.table.rows)
  /\ \E i \in 1..Len(arg.table.rows) :
       /\ HeaderRepeat(arg.table, arg.table.rows[i])
       /\ ~EntirelyNull(arg.table.rows[i])

\* A cell is wholly of one of the four shapes when it was written from two
\* numbers with a dash between them, with numbers in its parentheses and
\* with nothing before or behind (blanks apart).
WhollyShaped ==
  /\ arg.kind = "written"
  /\ arg.parts.before \in {<<>>, <<" ">>}
  /\ arg.parts.behind \in {<<>>, <<" ">>}
  /\ arg.parts.sign # ":"
  /\ arg.parts.lead # <<>>
  /\ arg.parts.trail # <<>>
AllNull ==
  [HomeScore |-> <<>>, AwayScore |-> <<>>, HomePenalty |-> <<>>,
   AwayPenalty |-> <<>>]

\* C20: for a score cell wholly of the shape 'H-A', '(P) H-A', 'H-A (P)' or
\* '(P1) H-A (P2)', process_fixture gives Home Score H, Away Score A, Home
\* Penalty the leading number or null, Away Penalty the trailing number or
\* null; for every other cell all four are null.
C20_ScoreDecomposition ==
  op = "process_fixture" =>
    IF WhollyShaped
      THEN ret = [HomeScore |-> <<Decimal(arg.parts.home)>>,
                  AwayScore |-> <<Decimal(arg.parts.away)>>,
                  HomePenalty |-> IF arg.parts.lead = NoText THEN <<>>
                                  ELSE <<Decimal(arg.parts.lead)>>,
                  AwayPenalty |-> IF arg.parts.trail = NoText THEN <<>>
                                  ELSE <<Decimal(arg.parts.trail)>>]
      ELSE ret = AllNull

\* The rows of the table add_match_code was called on that mark a completed
\* match, in table order, and the distinct codes in markup order.
Completed ==
  {i \in 1..Len(arg.table.rows) :
     arg.table.column # "none" /\ arg.table.rows[i] = "Match Report"}
NthCompleted(k) ==
  CHOOSE i \in Completed : Cardinality({j \in Completed : j <= i}) = k
DistinctCodes ==
  {arg.hrefs[i] : i \in 1..Len(arg.hrefs)}
NthCode(k) ==
  CHOOSE c \in DistinctCodes :
    LET firstOf(x) == CHOOSE i \in 1..Len(arg.hrefs) :
                        arg.hrefs[i] = x /\ \A j \in 1..(i - 1) : arg.hrefs[j] # x
    IN Cardinality({d \in DistinctCodes : firstOf(d) <= firstOf(c)}) = k

\* C21: add_match_code gives the k-th distinct extracted code to the k-th
\* row marked as a completed match, for every k, gives an extracted code to
\* no other row, and its result has no report column.
C21_CodesOntoCompletedRows ==
  op = "add_match_code" =>
    /\ ret.raised = "none"
    /\ ~ret.report
    /\ \A k \in 1..Min(Cardinality(Completed), Cardinality(DistinctCodes)) :
          ret.MatchCode[NthCompleted(k)] = NthCode(k)
    /\ \A i \in 1..Len(arg.table.rows) :
          i \notin Completed => ret.MatchCode[i] \notin DistinctCodes

\* C22: of the tables with a report column, on one with a 'Match Report'
\* column (a fixture table) every row
\* that is no completed match gets 'No data available'; 'Not yet played' is
\* given only in a history table (column 'Final'), to rows before the first
\* row with a match code; no row is left without a Match Code.
C22_SentinelByTableKind ==
  (op = "add_match_code" /\ ret.raised = "none"
     /\ arg.table.column # "none") =>
    /\ arg.table.column = "Match Report" =>
          \A i \in 1..Len(arg.table.rows) :
            i \notin Completed => ret.MatchCode[i] = "No data available"
    /\ \A i \in 1..Len(arg.table.rows) :
          ret.MatchCode[i] = "Not yet played" =>
            /\ arg.table.column = "Final"
            /\ \E j \in Completed : i < j
    /\ \A i \in 1..Len(arg.table.rows) :
          ret.MatchCode[i] \in
            DistinctCodes \cup {"Not yet played", "No data available"}

\* C23: add_match_code and split_champion_column end without an exception
\* whatever the table and the markup are.
C23_AnomaliesNeverRaise ==
  op \in {"add_match_code", "split_champion_column"} => ret.raised = "none"

\* A request of the process for u was answered with a page.
Answered(u) ==
  \E i \in 1..Len(ret.log) : ret.log[i] = [event |-> "sleep", url |-> u]

\* C24 as stated: within one process _fetch issues at most one network
\* request per URL.
C24_OneRequestPerUrl ==
  op \in {"_fetch", "fetch_fixture"} => \A u \in Urls : ret.requests[u] <= 1

\* C24: within one process, once a request of _fetch for a URL has been
\* answered, no later call for that URL issues a network request: the call
\* returns the memoized result.
C24_NoRequestAfterAnswer ==
  [][\A u \in Urls :
       (Answered(u) /\ op' \in {"_fetch", "fetch_fixture"}) =>
         /\ ret'.requests[u] = ret.requests[u]
         /\ ret'.log = ret.log \/ arg'.url # u
         /\ arg'.url = u => ret'.memo /\ ret'.raised = "none"]_vars

C24_Witness ==
  /\ op \in {"_fetch", "fetch_fixture"}
  /\ ret.memo
  /\ ret.requests[arg.url] = 1
  /\ arg.response # "ok"

\* C25: every network request of _fetch, one that fails included, is
\* followed by the cooldown before the next network request is issued.
C25_CooldownAfterEveryRequest ==
  op \in {"_fetch", "fetch_fixture"} =>
    \A i \in 1..(Len(ret.log) - 1) :
      ret.log[i].event = "urlopen" => ret.log[i + 1].event = "sleep"

\* The union of the {code, name} projections of the Club and Country tables
\* as persisted.
PersistedTeams == ret.database.rows["Club"] \cup ret.database.rows["Country"]

\* C26: whenever search_team is called on a DatabaseManager whose database
\* has the Club and the Country table, its cached team index is the union
\* of the projections of the two tables as persisted, also after the
\* manager wrote the tables or initialized the database.
C26_IndexMatchesTables ==
  (op = "search_team" /\ TeamTables \subseteq ret.database.tables) =>
    ret.all_team_data = PersistedTeams

\* What _search_team_internal answers for the two names of the call.
FirstResolution == search_team_internal(arg.data, arg.first_team, arg.sim)
SecondResolution == search_team_internal(arg.data, arg.second_team, arg.sim)
BothResolved ==
  /\ FirstResolution.status = SEARCH_STATUS_SUCCESS
  /\ SecondResolution.status = SEARCH_STATUS_SUCCESS
Contains(message, part) == \E i \in 1..Len(message) : message[i] = part

\* C27: get_h2h and get_match_detail call fetch_h2h only when both names
\* resolved with SUCCESS, and then with the resolved names and codes; when a
\* name is ambiguous or not found they fetch nothing and, the resolution
\* having run, answer with a message that holds the message of every team
\* that failed to resolve.
C27_ResolveBeforeFetch ==
  op \in {"get_h2h", "get_match_detail"} =>
    /\ ret.fetched # <<>> =>
          /\ BothResolved
          /\ ret.fetched[1] =
               <<FirstResolution.code, SecondResolution.code,
                 FirstResolution.found[1], SecondResolution.found[1]>>
    /\ ~BothResolved =>
          /\ ret.fetched = <<>>
          /\ ret.kind = "message"
          /\ (op = "get_h2h" \/ arg.data.loaded) =>
                /\ FirstResolution.status # SEARCH_STATUS_SUCCESS =>
                      Contains(ret.value, Msg(arg.first_team, FirstResolution))
                /\ SecondResolution.status # SEARCH_STATUS_SUCCESS =>
                      Contains(ret.value, Msg(arg.second_team, SecondResolution))

C27_Witness ==
  /\ op = "get_h2h"
  /\ BothResolved
  /\ ret.fetched # <<>>
  /\ ret.fetched[1][3] # arg.first_team

\* C28: with an unchanged source, repeated complete fixture runs eventually
\* persist every season of the league whose schedule page can be fetched,
\* also when the pages of other seasons fail in every run.
C28_NoSeasonStarved ==
  <>(\A s \in 1..nLeague :
       ~FetchRaises(<<League, s>>) => s \in SeasonsIn(db, League))

\* C29: the fixture phase never calls fetch_fixture with a sentinel for
\* match_code: whenever the season loop of a competition whose history has
\* no '# Squads' column stands before the fetch, the match code of the
\* season it is about to fetch is a real one.
C29_NoSentinelFetched ==
  ( /\ pc = "fixture_season"
    /\ todo # <<>>
    /\ ~db.History[Head(queue)].squads )
  => match_codes(db.History[Head(queue)])[Head(todo)] \notin Sentinels

\* The league season that is the newest when the model starts: a run has
\* stored it while it was the newest of the source and the stored history
\* listed it first; the stored history lists a newer season first; a run
\* has fetched it since.
StoredAsLatest ==
  /\ nLeague = LongSeasons
  /\ is_table_existing(db, THistory(League))
  /\ db.History[League].rows[1].Season = LongSeasons
  /\ <<League, LongSeasons>> \in written
NewerIsLatest ==
  /\ is_table_existing(db, THistory(League))
  /\ db.History[League].rows[1].Season > LongSeasons
Refetched ==
  /\ NewerIsLatest
  /\ <<League, LongSeasons>> \in fetched

\* C30: a season stored while it was the latest one (index 0) is fetched
\* again in a later run, once a newer season has become index 0.
C30_FormerLatestRefetched ==
  [](StoredAsLatest => [](NewerIsLatest => <>Refetched))

====
